---- MODULE Spec2Model ----
(***************************************************************************)
(* Model of the suiswap/aptoswap swap SDK numerical core:                  *)
(*   StableSwapHelper (src/src/internal/utils.ts) and                      *)
(*   PoolInfo / PositionInfo (src/src/internal/common.ts).                 *)
(* All amounts are JavaScript BigInt: unbounded integers whose division    *)
(* truncates toward zero and throws a RangeError on a zero divisor.        *)
(***************************************************************************)
EXTENDS Integers, Sequences, FiniteSets, TLC

VARIABLES pool, position, call, cachePoolRefs

vars == <<pool, position, call, cachePoolRefs>>

----------------------------------------------------------------------------
(* Bounds of the model *)

MaxReserve == 4
MaxAmount == 5
MaxAmp == 2
MaxScale == 2
MaxBalance == 12
MaxShare == 6
MaxMantissa == 12
MaxDemical == 1
MaxLen == 3
MaxTimes == 4
MaxCoins == 3
MaxCoinBalance == 3
MaxRefs == 2

(* Program constants *)

MaxIter == 256
BPS_SCALING == 10000
_1E9 == 1000000000

----------------------------------------------------------------------------
(* BigInt arithmetic *)

Abs(n) == IF n < 0 THEN -n ELSE n

\* a / b on BigInt, b # 0: the quotient truncated toward zero
BigIntDiv(a, b) ==
    IF (a >= 0) = (b > 0) THEN Abs(a) \div Abs(b) ELSE -(Abs(a) \div Abs(b))

\* the value of a call that returned v
Ok(v) == [ok |-> TRUE, v |-> v]

\* a call that ended in "RangeError: Division by zero"
Thrown == [ok |-> FALSE, v |-> 0]

\* the value v a Newton loop returned after n executions of its body
Done(v, n) == [ok |-> TRUE, v |-> v, n |-> n]

\* a Newton loop that threw in its n-th execution of the body
ThrownAt(n) == [ok |-> FALSE, v |-> 0, n |-> n]

\* SuiswapClient.cachePoolRefs: null, or the array of pool references
NullCache == [isNull |-> TRUE, refs |-> <<>>]
Cached(refs) == [isNull |-> FALSE, refs |-> refs]

RECURSIVE bigintPow(_, _)
bigintPow(a, b) == IF b <= 0 THEN 1 ELSE a * bigintPow(a, b - 1)

\* Array(b) throws a RangeError for a negative length
bigintPowThrows(b) == b < 0

----------------------------------------------------------------------------
(* StableSwapHelper *)

\* faulty variant: the leverage term without the factor TWO
compuateDNext_NoTwo(dInit, dProd, sumX, A) ==
    LET leverage == sumX * A
        numerator == dInit * (2 * dProd + leverage)
        denominator == (dInit * (2 * A - 1)) + (3 * dProd)
    IN  IF denominator = 0 THEN Thrown ELSE Ok(BigIntDiv(numerator, denominator))

compuateDNext(dInit, dProd, sumX, A) ==
    LET leverage == sumX * 2 * A
        numerator == dInit * (2 * dProd + leverage)
        denominator == (dInit * (2 * A - 1)) + (3 * dProd)
    IN  IF denominator = 0 THEN Thrown ELSE Ok(BigIntDiv(numerator, denominator))

\* faulty variant: the value before the last step returned on convergence
RECURSIVE computeDLoop_ReturnsPrevious(_, _, _, _, _)
computeDLoop_ReturnsPrevious(d, b, q, A, i) ==
    IF i >= MaxIter THEN Done(d, i)
    ELSE IF 2 * b = 0 THEN ThrownAt(i + 1)
    ELSE LET dProd1 == BigIntDiv(d * d, 2 * b)
         IN  IF 2 * q = 0 THEN ThrownAt(i + 1)
             ELSE LET dProd == BigIntDiv(dProd1 * d, 2 * q)
                      dNext == compuateDNext(d, dProd, b + q, A)
                  IN  IF ~dNext.ok THEN ThrownAt(i + 1)
                      ELSE IF (dNext.v - d) \in {1, -1, 0} THEN Done(d, i + 1)
                      ELSE computeDLoop_ReturnsPrevious(dNext.v, b, q, A, i + 1)

RECURSIVE computeDLoop(_, _, _, _, _)
computeDLoop(d, b, q, A, i) ==
    IF i >= MaxIter THEN Done(d, i)
    ELSE IF 2 * b = 0 THEN ThrownAt(i + 1)
    ELSE LET dProd1 == BigIntDiv(d * d, 2 * b)
         IN  IF 2 * q = 0 THEN ThrownAt(i + 1)
             ELSE LET dProd == BigIntDiv(dProd1 * d, 2 * q)
                      dNext == compuateDNext(d, dProd, b + q, A)
                  IN  IF ~dNext.ok THEN ThrownAt(i + 1)
                      ELSE IF (dNext.v - d) \in {1, -1, 0} THEN Done(dNext.v, i + 1)
                      ELSE computeDLoop(dNext.v, b, q, A, i + 1)

computeD(b, q, A) ==
    IF b + q = 0 THEN Done(0, 0) ELSE computeDLoop(b + q, b, q, A, 0)

RECURSIVE computeYLoop(_, _, _, _, _)
computeYLoop(yy, b, c, d, i) ==
    IF i >= MaxIter THEN Done(yy, i)
    ELSE LET yn == yy * yy + c
             yd == 2 * yy + b - d
         IN  IF yd = 0 THEN ThrownAt(i + 1)
             ELSE LET yNext == BigIntDiv(yn, yd)
                  IN  IF (yNext - yy) \in {1, -1, 0} THEN Done(yNext, i + 1)
                      ELSE computeYLoop(yNext, b, c, d, i + 1)

\* faulty variant: the conservative unit added instead of subtracted
computeYResult_PlusOne(y, yy) == y - yy + 1

\* faulty variant: the conservative unit left out
computeYResult_NoUnit(y, yy) == y - yy

\* faulty variant: the operands of the subtraction exchanged
computeYResult_Exchanged(y, yy) == yy - y - 1

computeYResult(y, yy) == y - yy - 1

computeY(dx, x, y, A) ==
    LET dr == computeD(x, y, A)
    IN  IF ~dr.ok THEN Thrown
        ELSE LET d == dr.v
             IN  IF 2 * (x + dx) = 0 \/ 4 * A = 0 \/ 2 * A = 0 THEN Thrown
                 ELSE LET c1 == BigIntDiv(d * d, 2 * (x + dx))
                          c == BigIntDiv(c1 * d, 4 * A)
                          b == BigIntDiv(d, 2 * A) + (x + dx)
                          yr == computeYLoop(d, b, c, d, 0)
                      IN  IF ~yr.ok THEN Thrown ELSE Ok(computeYResult(y, yr.v))

\* what a wrapper hands back: a bigint, or undefined when its body ends without
\* a return statement
Returned(v) == [ok |-> TRUE, undefined |-> FALSE, v |-> v]
Undefined == [ok |-> TRUE, undefined |-> TRUE, v |-> 0]
Raised == [ok |-> FALSE, undefined |-> FALSE, v |-> 0]

computeDDecimal(b, q, A, bd, qd) ==
    LET md == IF bd > qd THEN bd ELSE qd
        d == computeD(b * bigintPow(10, md - bd), q * bigintPow(10, md - qd), A)
    IN  IF ~d.ok THEN Raised ELSE Undefined

computeYDecimal(dx, x, y, A, xd, yd) ==
    LET md == IF xd > yd THEN xd ELSE yd
        xs == bigintPow(10, md - xd)
        ys == bigintPow(10, md - yd)
        dy == computeY(dx * xs, x * xs, y * ys, A)
    IN  IF ~dy.ok THEN Raised ELSE Returned(BigIntDiv(dy.v, ys))

----------------------------------------------------------------------------
(* PoolInfo *)

totalAdminFee(p) == p.adminFee + p.connectFee

\* faulty variant: the incentive fee left out of the LP fee
totalLpFee_NoIncentive(p) == p.lpFee

totalLpFee(p) == p.incentiveFee + p.lpFee

\* faulty variant: the input left out of the denominator
_computeAmount_DenominatorX(dx, x, y) ==
    IF x = 0 THEN Thrown ELSE Ok(BigIntDiv(y * dx, x))

\* faulty variant: the quotient rounded up
_computeAmount_RoundedUp(dx, x, y) ==
    IF x + dx = 0 THEN Thrown ELSE Ok(BigIntDiv(y * dx + (x + dx - 1), x + dx))

_computeAmount(dx, x, y) ==
    LET numerator == y * dx
        denominator == x + dx
    IN  IF denominator = 0 THEN Thrown ELSE Ok(BigIntDiv(numerator, denominator))

_computeAmountStable(p, dx, x, y, x_scale, y_scale) ==
    LET dy_ == computeY(dx * x_scale, x * x_scale, y * y_scale, p.stableAmp)
    IN  IF ~dy_.ok \/ y_scale = 0 THEN Thrown ELSE Ok(BigIntDiv(dy_.v, y_scale))

\* dx - dx * fee / BPS_SCALING
deductFee(amt, fee) == amt - BigIntDiv(amt * fee, BPS_SCALING)

\* the amount handed to the curve by getXToYAmount (after the input-leg fees)
xToYCurveInput(p, dx) ==
    LET dx1 == IF p.feeDirection = "X" THEN deductFee(dx, totalAdminFee(p)) ELSE dx
    IN  deductFee(dx1, totalLpFee(p))

getXToYAmount(p, dx) ==
    LET dx2 == xToYCurveInput(p, dx)
    IN  IF dx2 < 0 THEN Ok(0)
        ELSE LET dy == IF p.swapType = "v2"
                         THEN _computeAmount(dx2, p.x, p.y)
                         ELSE _computeAmountStable(p, dx2, p.x, p.y, p.stableXScale, p.stableYScale)
             IN  IF ~dy.ok THEN Thrown
                 ELSE IF p.feeDirection = "Y" THEN Ok(deductFee(dy.v, totalAdminFee(p)))
                 ELSE Ok(dy.v)

\* the amount handed to the curve by getYToXAmount (after the input-leg fees)
yToXCurveInput(p, dy) ==
    LET dy1 == IF p.feeDirection = "Y" THEN deductFee(dy, totalAdminFee(p)) ELSE dy
    IN  deductFee(dy1, totalLpFee(p))

\* faulty variant: the scales handed to the stable curve in the order of the
\* forward quote
getYToXAmount_ForwardScales(p, dy) ==
    LET dy2 == yToXCurveInput(p, dy)
    IN  IF dy2 < 0 THEN Ok(0)
        ELSE LET dx == IF p.swapType = "v2"
                         THEN _computeAmount(dy2, p.y, p.x)
                         ELSE _computeAmountStable(p, dy2, p.y, p.x, p.stableXScale, p.stableYScale)
             IN  IF ~dx.ok THEN Thrown
                 ELSE IF p.feeDirection = "X" THEN Ok(deductFee(dx.v, totalAdminFee(p)))
                 ELSE Ok(dx.v)

getYToXAmount(p, dy) ==
    LET dy2 == yToXCurveInput(p, dy)
    IN  IF dy2 < 0 THEN Ok(0)
        ELSE LET dx == IF p.swapType = "v2"
                         THEN _computeAmount(dy2, p.y, p.x)
                         ELSE _computeAmountStable(p, dy2, p.y, p.x, p.stableYScale, p.stableXScale)
             IN  IF ~dx.ok THEN Thrown
                 ELSE IF p.feeDirection = "X" THEN Ok(deductFee(dx.v, totalAdminFee(p)))
                 ELSE Ok(dx.v)

\* a slippage is a JavaScript number in [0, 1]; the model takes the multiples of
\* 1e-10, [nano |-> n, tenth |-> t] standing for (n + t / 10) * 1e-9, whose
\* products by 10 ** 9 are not halfway between two integers
Slippage(n, t) == [nano |-> n, tenth |-> t]

\* Math.round(i - t / 10) for an integer i and a digit t: the nearest integer
mathRoundTenths(i, t) == i + ((10 - 2 * t) \div 20)

\* faulty variant: Math.floor in place of Math.round
slippageFactor_Floor(s) == (_1E9 - s.nano) - (IF s.tenth > 0 THEN 1 ELSE 0)

\* BigInt(Math.round((10 ** 9) * (1.0 - slippage)))
slippageFactor(s) == mathRoundTenths(_1E9 - s.nano, s.tenth)

\* a * f / _1E9 on BigInt for 0 <= f <= _1E9; the product is formed over the two
\* halves of f so that every intermediate value stays below 2^31
mulDiv1E9(a, f) ==
    LET f1 == f \div 100000
        f0 == f % 100000
        q == (Abs(a) * f1 + ((Abs(a) * f0) \div 100000)) \div 10000
    IN  IF a < 0 THEN -q ELSE q

getXToYMinOutputAmount(p, dx, slippage) ==
    LET dy == getXToYAmount(p, dx)
    IN  IF ~dy.ok THEN Thrown ELSE Ok(mulDiv1E9(dy.v, slippageFactor(slippage)))

getYToXMinOutputAmount(p, dy, slippage) ==
    LET dx == getYToXAmount(p, dy)
    IN  IF ~dx.ok THEN Thrown ELSE Ok(mulDiv1E9(dx.v, slippageFactor(slippage)))

\* EPoolNotAvaliableReason
Freeze == "Pool is freezed"
Empty == "Pool is empty, deposit first"
Null == "null"

\* faulty variant: the reserves tested before the freeze flag
getNotAvaliableForSwapReason_EmptyFirst(p) ==
    IF p.x = 0 \/ p.y = 0 THEN Empty
    ELSE IF p.freeze THEN Freeze
    ELSE Null

getNotAvaliableForSwapReason(p) ==
    IF p.freeze THEN Freeze
    ELSE IF p.x = 0 \/ p.y = 0 THEN Empty
    ELSE Null

isAvaliableForSwap(p) == getNotAvaliableForSwapReason(p) = Null

\* a price is the double nearest to n / d
Price(n, d) == [ok |-> TRUE, n |-> n, d |-> d]

_getPriceStableRational(p, xDecimal, yDecimal) ==
    LET A == p.stableAmp
        q == p.x
        b == p.y
        qd == xDecimal
        bd == yDecimal
        md == IF bd > qd THEN bd ELSE qd
        b1 == b * bigintPow(10, md - bd)
        q1 == q * bigintPow(10, md - qd)
        d == computeD(b1, q1, A)
    IN  IF ~d.ok THEN [ok |-> FALSE, n |-> 0, d |-> 1]
        ELSE Price(b1 * (d.v + 4 * A * (2 * q1 + b1 - d.v)),
                   q1 * (d.v + 4 * A * (2 * b1 + q1 - d.v)))

_getPriceGeneral(p, xDecimal, yDecimal) ==
    IF p.x = 0 THEN Price(0, 1)
    ELSE Price(p.y * bigintPow(10, xDecimal), p.x * bigintPow(10, yDecimal))

getPrice(p, xDecimal, yDecimal) ==
    IF p.swapType = "v2" THEN _getPriceGeneral(p, xDecimal, yDecimal)
    ELSE _getPriceStableRational(p, xDecimal, yDecimal)

----------------------------------------------------------------------------
(* Pool deposits *)

isInitialized(p) == (p.x > 0) /\ (p.y > 0)

getDepositXAmount(p, y) ==
    IF p.y = 0 THEN 0 ELSE BigIntDiv(p.x * y, p.y)

\* faulty variant: the reserves exchanged in the proportion
getDepositYAmount_Swapped(p, x) ==
    IF p.x = 0 THEN 0 ELSE BigIntDiv(x * p.x, p.y)

getDepositYAmount(p, x) ==
    IF p.x = 0 THEN 0 ELSE BigIntDiv(x * p.y, p.x)

getDepositAmount(p, xMax, yMax) ==
    IF ~isInitialized(p) \/ xMax <= 0 \/ yMax <= 0 THEN <<0, 0>>
    ELSE IF getDepositXAmount(p, yMax) > xMax
         THEN LET y == getDepositYAmount(p, xMax)
              IN  <<xMax, IF y < yMax THEN y ELSE yMax>>
         ELSE LET x == getDepositXAmount(p, yMax)
              IN  <<IF x < xMax THEN x ELSE xMax, yMax>>

----------------------------------------------------------------------------
(* Pool coin types *)

CoinType(network, name) == [network |-> network, name |-> name]

isSameCoinType(a, b) == (a.network = b.network) /\ (a.name = b.name)

\* the pool p with type = { xTokenType, yTokenType }
WithType(p, xTokenType, yTokenType) ==
    [f \in DOMAIN p \cup {"xTokenType", "yTokenType"} |->
        IF f = "xTokenType" THEN xTokenType
        ELSE IF f = "yTokenType" THEN yTokenType
        ELSE p[f]]

getSwapDirection(p, x, y) ==
    IF isSameCoinType(x, p.xTokenType) /\ isSameCoinType(y, p.yTokenType) THEN "forward"
    ELSE IF isSameCoinType(x, p.yTokenType) /\ isSameCoinType(y, p.xTokenType) THEN "reverse"
    ELSE Null

\* a && b && c || d groups as (a && b && c) || d
isCapableSwappingForCoins(p, x, y) ==
    \/ /\ isInitialized(p)
       /\ isAvaliableForSwap(p)
       /\ isSameCoinType(x, p.xTokenType) /\ isSameCoinType(y, p.yTokenType)
    \/ isSameCoinType(x, p.yTokenType) /\ isSameCoinType(y, p.xTokenType)

----------------------------------------------------------------------------
(* DemicalFormat and PositionInfo *)

\* new DemicalFormat(value, demical): a negative demical is stored as 0
DemicalFormat(value, demical) ==
    [value |-> value, demical |-> IF demical < 0 THEN 0 ELSE demical]

\* a string is the sequence of its characters
Digits == <<"0", "1", "2", "3", "4", "5", "6", "7", "8", "9">>
IsDigit(c) == \E i \in 1 .. 10 : Digits[i] = c
DigitValue(c) == (CHOOSE i \in 1 .. 10 : Digits[i] = c) - 1
AllDigits(s) == \A i \in 1 .. Len(s) : IsDigit(s[i])
Includes(s, c) == \E i \in 1 .. Len(s) : s[i] = c

\* String.prototype.indexOf, counted from 0, -1 when absent
IndexOf(s, c) ==
    IF Includes(s, c) THEN (CHOOSE i \in 1 .. Len(s) : s[i] = c /\ \A j \in 1 .. (i - 1) : s[j] # c) - 1
    ELSE -1

\* Array(n).fill("0").join("")
RECURSIVE Zeros(_)
Zeros(n) == IF n <= 0 THEN <<>> ELSE <<"0">> \o Zeros(n - 1)

\* BigInt.prototype.toString
RECURSIVE NatToString(_)
NatToString(n) ==
    IF n < 10 THEN <<Digits[n + 1]>> ELSE NatToString(n \div 10) \o <<Digits[(n % 10) + 1]>>

BigIntToString(n) == IF n < 0 THEN <<"-">> \o NatToString(-n) ELSE NatToString(n)

\* BigInt(s) for a string of digits, "" giving 0
RECURSIVE StringToBigInt(_)
StringToBigInt(s) ==
    IF s = <<>> THEN 0
    ELSE 10 * StringToBigInt(SubSeq(s, 1, Len(s) - 1)) + DigitValue(s[Len(s)])

\* s.replace('.', '')
RemoveDot(s) ==
    LET i == IndexOf(s, ".")
    IN  IF i = -1 THEN s ELSE SubSeq(s, 1, i) \o SubSeq(s, i + 2, Len(s))

RECURSIVE StripLeadingZeros(_)
StripLeadingZeros(s) ==
    IF Len(s) >= 2 /\ s[1] = "0" /\ IsDigit(s[2]) THEN StripLeadingZeros(Tail(s)) ELSE s

RECURSIVE StripTrailingZeros(_)
StripTrailingZeros(s) ==
    IF Len(s) >= 1 /\ s[Len(s)] = "0" THEN StripTrailingZeros(SubSeq(s, 1, Len(s) - 1)) ELSE s

\* formatNumeric of ./format: the canonical text of a number, without redundant
\* leading zeros, without trailing zeros after the point and without a point
\* that nothing follows
formatNumeric(s) ==
    LET a == StripLeadingZeros(s)
        b == IF Includes(a, ".") THEN StripTrailingZeros(a) ELSE a
    IN  IF Len(b) >= 1 /\ b[Len(b)] = "." THEN SubSeq(b, 1, Len(b) - 1) ELSE b

toString(v, fixed) ==
    IF v.demical <= 0 THEN formatNumeric(BigIntToString(v.value))
    ELSE LET padded == Zeros(v.demical) \o BigIntToString(v.value)
             pointed == SubSeq(padded, 1, Len(padded) - v.demical) \o <<".">>
                            \o SubSeq(padded, Len(padded) - v.demical + 1, Len(padded))
             vs == formatNumeric(pointed)
         IN  IF fixed
             THEN LET vd == IF IndexOf(vs, ".") = -1 THEN vs \o <<".">> ELSE vs
                      currentDemical == Len(vd) - 1 - IndexOf(vd, ".")
                      appendDemical == v.demical - currentDemical
                  IN  vd \o Zeros(IF appendDemical < 0 THEN 0 ELSE appendDemical)
             ELSE vs

\* s.match(/(^[0-9]+$)|(^[0-9]+\.[0-9]*$)/) !== null
MatchesNumeric(s) ==
    \/ Len(s) >= 1 /\ AllDigits(s)
    \/ \E i \in 2 .. Len(s) :
            /\ s[i] = "."
            /\ AllDigits(SubSeq(s, 1, i - 1))
            /\ AllDigits(SubSeq(s, i + 1, Len(s)))

\* what fromString returns: null or a DemicalFormat
NullFormat == [isNull |-> TRUE, value |-> 0, demical |-> 0]
Parsed(v) == [isNull |-> FALSE, value |-> v.value, demical |-> v.demical]

\* faulty variant: the check of the second digit left out
fromString_NoSecondDigitCheck(s_) ==
    IF ~MatchesNumeric(s_) THEN NullFormat
    ELSE LET s == formatNumeric(s_)
             counted == Len(s) - 1 - IndexOf(s, ".")
             demical == IF counted >= Len(s) THEN 0 ELSE counted
         IN  Parsed(DemicalFormat(StringToBigInt(RemoveDot(s)), demical))

fromString(s_) ==
    IF ~MatchesNumeric(s_) THEN NullFormat
    ELSE IF Len(s_) >= 2 /\ s_[1] = "0" /\ s_[2] = "0" THEN NullFormat
    ELSE LET s == formatNumeric(s_)
             counted == Len(s) - 1 - IndexOf(s, ".")
             demical == IF counted >= Len(s) THEN 0 ELSE counted
         IN  Parsed(DemicalFormat(StringToBigInt(RemoveDot(s)), demical))

canAlignTo(v, rDemical) == v.demical <= rDemical

\* faulty variant: the mantissa carried over as it is
alignTo_SameMantissa(v, rDemical) ==
    IF bigintPowThrows(rDemical - v.demical) THEN Thrown
    ELSE Ok(DemicalFormat(v.value, rDemical))

\* faulty variant: a smaller scale reached by dropping digits
alignTo_Truncating(v, rDemical) ==
    IF rDemical < v.demical
    THEN Ok(DemicalFormat(BigIntDiv(v.value, bigintPow(10, v.demical - rDemical)), rDemical))
    ELSE Ok(DemicalFormat(v.value * bigintPow(10, rDemical - v.demical), rDemical))

alignTo(v, rDemical) ==
    IF bigintPowThrows(rDemical - v.demical) THEN Thrown
    ELSE Ok(DemicalFormat(v.value * bigintPow(10, rDemical - v.demical), rDemical))

\* new PositionInfo(poolInfo, lspCoin, ratio), ratio undefined; balance is
\* lspCoin.balance
PositionInfo(poolInfo, lspBalance) ==
    [poolInfo |-> poolInfo, balance |-> lspBalance, hasRatio |-> FALSE,
     ratio |-> DemicalFormat(0, 0)]

\* faulty variant: the new ratio multiplied into the ratio the position carries
partial_Compound(pos, ratio) ==
    [poolInfo |-> pos.poolInfo, balance |-> pos.balance, hasRatio |-> TRUE,
     ratio |-> IF pos.hasRatio
               THEN DemicalFormat(pos.ratio.value * ratio.value,
                                  pos.ratio.demical + ratio.demical)
               ELSE ratio]

\* PositionInfo.partial: a new position over the same pool and share coin with
\* the ratio
partial(pos, ratio) ==
    [poolInfo |-> pos.poolInfo, balance |-> pos.balance, hasRatio |-> TRUE,
     ratio |-> ratio]

\* faulty variant: no clamp at the share balance
balance_NoUpperClamp(pos) ==
    IF ~pos.hasRatio THEN pos.balance
    ELSE LET bl == BigIntDiv(pos.balance * pos.ratio.value, bigintPow(10, pos.ratio.demical))
         IN  IF bl < 0 THEN 0 ELSE bl

balance(pos) ==
    IF ~pos.hasRatio THEN pos.balance
    ELSE LET bl == BigIntDiv(pos.balance * pos.ratio.value, bigintPow(10, pos.ratio.demical))
         IN  IF bl < 0 THEN 0
             ELSE IF bl > pos.balance THEN pos.balance
             ELSE bl

\* faulty variant: the X reserve used for both sides
getShareCoinAmounts_BothX(pos) ==
    IF pos.poolInfo.lspSupply = 0 THEN <<0, 0>>
    ELSE LET t == balance(pos)
         IN  <<BigIntDiv(t * pos.poolInfo.x, pos.poolInfo.lspSupply),
               BigIntDiv(t * pos.poolInfo.x, pos.poolInfo.lspSupply)>>

getShareCoinAmounts(pos) ==
    IF pos.poolInfo.lspSupply = 0 THEN <<0, 0>>
    ELSE LET t == balance(pos)
         IN  <<BigIntDiv(t * pos.poolInfo.x, pos.poolInfo.lspSupply),
               BigIntDiv(t * pos.poolInfo.y, pos.poolInfo.lspSupply)>>

----------------------------------------------------------------------------
(* Pool snapshots *)

MkPool(t, x, y, lsp, fd, A, xs, ys, fr, fee) ==
    [swapType |-> t, x |-> x, y |-> y, lspSupply |-> lsp, feeDirection |-> fd,
     stableAmp |-> A, stableXScale |-> xs, stableYScale |-> ys, freeze |-> fr,
     adminFee |-> fee[1], connectFee |-> fee[2], lpFee |-> fee[3], incentiveFee |-> fee[4]]

NoFee == <<0, 0, 0, 0>>

\* <<adminFee, connectFee, lpFee, incentiveFee>> in basis points, both totals within 0..10000
FeeConfigs ==
    { NoFee, <<2500, 2500, 0, 0>>, <<0, 0, 2500, 2500>>, <<5000, 0, 0, 2500>>,
      <<5000, 5000, 2500, 0>>, <<0, 2500, 5000, 5000>> }

\* a frozen snapshot keeps its reserves and fees; the model freezes the fee-less ones
FeeFreeze == { <<fee, FALSE>> : fee \in FeeConfigs } \cup { <<NoFee, TRUE>> }

Reserves == 0 .. MaxReserve
Amounts == 0 .. MaxAmount

\* the side with the larger decimal precision has scale 1
ScalePairs == { <<1, s>> : s \in 1 .. MaxScale } \cup { <<s, 1>> : s \in 1 .. MaxScale }

\* the pools of the spec's scenarios (reserves 1000000 / 2000000 without fees, and a
\* pool with totalLpFeeBps = 30 charged on X), each quoted on its scenario's input
ScenarioPoolV2 == MkPool("v2", 1000000, 2000000, 1000000, "X", 1, 1, 1, FALSE, NoFee)
ScenarioPoolFee == MkPool("v2", 100000, 100000, 100000, "X", 1, 1, 1, FALSE, <<0, 0, 20, 10>>)

SwapPools ==
    { MkPool("v2", x, y, x + y, fd, 1, 1, 1, ff[2], ff[1]) :
        x \in Reserves, y \in Reserves, fd \in {"X", "Y"}, ff \in FeeFreeze }
    \cup
    { MkPool("stable", xy[1], xy[2], xy[1] + xy[2], fd, A, sc[1], sc[2], ff[2], ff[1]) :
        xy \in Reserves \X Reserves, fd \in {"X", "Y"}, A \in 1 .. MaxAmp,
        sc \in ScalePairs, ff \in FeeFreeze }
    \cup { ScenarioPoolV2, ScenarioPoolFee }

AmountsOf(p) ==
    IF p = ScenarioPoolV2 THEN {1000}
    ELSE IF p = ScenarioPoolFee THEN {10000}
    ELSE Amounts

NoPosition == PositionInfo(MkPool("v2", 0, 0, 0, "X", 1, 1, 1, FALSE, NoFee), 0)

NoCall == [op |-> "none"]

----------------------------------------------------------------------------
(* Spec: swap quotes on one pool snapshot *)

Init ==
    /\ cachePoolRefs = NullCache
    /\ pool \in SwapPools
    /\ position = NoPosition
    /\ call = NoCall

\* faulty variant: the quote carried out on the reserves of the snapshot
GetXToYAmount_Applying ==
    \E dx \in AmountsOf(pool) :
        LET ret == getXToYAmount(pool, dx)
        IN  /\ call' = [op |-> "getXToYAmount", arg |-> dx,
                        curveIn |-> xToYCurveInput(pool, dx), ret |-> ret]
            /\ pool' = IF ret.ok /\ ret.v > 0
                       THEN [pool EXCEPT !.x = @ + dx, !.y = @ - ret.v]
                       ELSE pool
            /\ UNCHANGED <<position, cachePoolRefs>>

GetXToYAmount ==
    \E dx \in AmountsOf(pool) :
        /\ call' = [op |-> "getXToYAmount", arg |-> dx,
                    curveIn |-> xToYCurveInput(pool, dx),
                    ret |-> getXToYAmount(pool, dx)]
        /\ UNCHANGED <<pool, position, cachePoolRefs>>

\* the input is a fresh amount or the output of the forward quote just taken
GetYToXAmount ==
    \E dy \in AmountsOf(pool) \cup
              (IF call.op = "getXToYAmount" /\ call.ret.ok THEN {call.ret.v} ELSE {}) :
        LET chained == call.op = "getXToYAmount" /\ call.ret.ok /\ dy = call.ret.v
        IN  /\ call' = [op |-> "getYToXAmount", arg |-> dy,
                        curveIn |-> yToXCurveInput(pool, dy),
                        ret |-> getYToXAmount(pool, dy),
                        chained |-> chained,
                        origin |-> IF chained THEN call.arg ELSE 0]
            /\ UNCHANGED <<pool, position, cachePoolRefs>>

Next == GetXToYAmount \/ GetYToXAmount

Spec == Init /\ [][Next]_vars

----------------------------------------------------------------------------
(* SpecSolver: the stable-swap invariant solver on its own *)

SolverPool == MkPool("stable", 0, 0, 0, "X", 1, 1, 1, FALSE, NoFee)

\* <<b, q, A>>; the last is the balanced scenario of the spec, scaled to fit
SolverInputs ==
    ((0 .. MaxBalance) \X (0 .. MaxBalance) \X (1 .. MaxAmp)) \cup { <<1000, 1000, 100>> }

InitSolver ==
    /\ cachePoolRefs = NullCache
    /\ pool = SolverPool
    /\ position = NoPosition
    /\ call = NoCall

ComputeD ==
    \E in \in SolverInputs :
        /\ call' = [op |-> "computeD", b |-> in[1], q |-> in[2], A |-> in[3],
                    ret |-> computeD(in[1], in[2], in[3])]
        /\ UNCHANGED <<pool, position, cachePoolRefs>>

NextSolver == ComputeD

SpecSolver == InitSolver /\ [][NextSolver]_vars

----------------------------------------------------------------------------
(* SpecReserve: the counterparty reserve solver on its own *)

\* <<dx, x, y, A>>; the last two are a balanced and an unbalanced pool of larger
\* reserves
ReserveInputs ==
    (Amounts \X Reserves \X Reserves \X (1 .. MaxAmp))
    \cup { <<10, 1000, 1000, 100>>, <<300, 100, 900, 2>> }

ComputeY ==
    \E in \in ReserveInputs :
        /\ call' = [op |-> "computeY", dx |-> in[1], x |-> in[2], y |-> in[3], A |-> in[4],
                    d |-> computeD(in[2], in[3], in[4]),
                    ret |-> computeY(in[1], in[2], in[3], in[4])]
        /\ UNCHANGED <<pool, position, cachePoolRefs>>

NextReserve == ComputeY

SpecReserve == InitSolver /\ [][NextReserve]_vars

----------------------------------------------------------------------------
(* SpecDeposit: deposit quotes on one pool snapshot *)

DepositPools ==
    { MkPool(t, x, y, lsp, "X", 1, 1, 1, fr, NoFee) :
        t \in {"v2", "stable"}, x \in Reserves, y \in Reserves,
        lsp \in {0, MaxReserve}, fr \in BOOLEAN }

DepositCaps == -1 .. MaxAmount

InitDeposit ==
    /\ cachePoolRefs = NullCache
    /\ pool \in DepositPools
    /\ position = NoPosition
    /\ call = NoCall

GetDepositAmount ==
    \E xMax \in DepositCaps, yMax \in DepositCaps :
        /\ call' = [op |-> "getDepositAmount", xMax |-> xMax, yMax |-> yMax,
                    ret |-> getDepositAmount(pool, xMax, yMax)]
        /\ UNCHANGED <<pool, position, cachePoolRefs>>

NextDeposit == GetDepositAmount

SpecDeposit == InitDeposit /\ [][NextDeposit]_vars

----------------------------------------------------------------------------
(* SpecPosition: the share balance of a position *)

\* the spec's scenario: balance 1000 narrowed by the ratio 0.25
ScenarioPosition == partial(PositionInfo(SolverPool, 1000), DemicalFormat(25, 2))

Positions ==
    { PositionInfo(SolverPool, b) : b \in 0 .. MaxShare }
    \cup
    { partial(PositionInfo(SolverPool, b), DemicalFormat(m, d)) :
        b \in 0 .. MaxShare, m \in (-MaxMantissa) .. MaxMantissa, d \in -1 .. MaxDemical }
    \cup { ScenarioPosition }

InitPosition ==
    /\ cachePoolRefs = NullCache
    /\ pool = SolverPool
    /\ position \in Positions
    /\ call = NoCall

Balance ==
    /\ call' = [op |-> "balance", ret |-> balance(position)]
    /\ UNCHANGED <<pool, position, cachePoolRefs>>

\* the ratios a caller narrows a position by: 0, 0.5, 1, 1.5 and 0.25
PartialRatios ==
    { DemicalFormat(0, 0), DemicalFormat(5, 1), DemicalFormat(1, 0), DemicalFormat(15, 1),
      DemicalFormat(25, 2) }

\* partial() called on the position or on the position the preceding partial()
\* returned
Partial ==
    \E ratio \in PartialRatios :
        \E src \in {position} \cup (IF call.op = "partial" THEN {call.ret} ELSE {}) :
            /\ call' = [op |-> "partial", src |-> src, ratio |-> ratio,
                        ret |-> partial(src, ratio)]
            /\ UNCHANGED <<pool, position, cachePoolRefs>>

NextPosition == Balance \/ Partial

SpecPosition == InitPosition /\ [][NextPosition]_vars

----------------------------------------------------------------------------
(* SpecShare: the reserves a position's shares stand for *)

SharePools ==
    { MkPool("v2", x, y, lsp, "X", 1, 1, 1, FALSE, NoFee) :
        x \in Reserves, y \in Reserves, lsp \in 0 .. MaxShare }

SharePositionsOf(p) ==
    { PositionInfo(p, b) : b \in 0 .. MaxShare }
    \cup { partial(PositionInfo(p, b), r) : b \in 0 .. MaxShare, r \in PartialRatios }

InitShare ==
    /\ cachePoolRefs = NullCache
    /\ pool \in SharePools
    /\ position \in SharePositionsOf(pool)
    /\ call = NoCall

GetShareCoinAmounts ==
    /\ call' = [op |-> "getShareCoinAmounts", ret |-> getShareCoinAmounts(position)]
    /\ UNCHANGED <<pool, position, cachePoolRefs>>

NextShare == GetShareCoinAmounts

SpecShare == InitShare /\ [][NextShare]_vars

----------------------------------------------------------------------------
(* SpecSnapshot: every accounting method on one pool and one position *)

SnapshotPools ==
    { MkPool(t, x, y, x + y, "X", 1, 1, 1, fr, fee) :
        t \in {"v2", "stable"}, x \in {0, 1, MaxReserve}, y \in {0, 1, MaxReserve},
        fr \in BOOLEAN, fee \in {<<0, 2500, 2500, 0>>} }
    \cup { ScenarioPoolV2 }

Slippages ==
    { Slippage(0, 0), Slippage(0, 3), Slippage(0, 7), Slippage(5000000, 0),
      Slippage(500000000, 0), Slippage(_1E9, 0) }

Decimals == 0 .. MaxDemical

InitSnapshot ==
    /\ cachePoolRefs = NullCache
    /\ pool \in SnapshotPools
    /\ position \in { PositionInfo(pool, MaxShare),
                      partial(PositionInfo(pool, MaxShare), DemicalFormat(5, 1)) }
    /\ call = NoCall

GetXToYMinOutputAmount ==
    \E dx \in AmountsOf(pool), slippage \in Slippages :
        /\ call' = [op |-> "getXToYMinOutputAmount", arg |-> dx, slippage |-> slippage,
                    quote |-> getXToYAmount(pool, dx),
                    ret |-> getXToYMinOutputAmount(pool, dx, slippage)]
        /\ UNCHANGED <<pool, position, cachePoolRefs>>

GetYToXMinOutputAmount ==
    \E dy \in AmountsOf(pool), slippage \in Slippages :
        /\ call' = [op |-> "getYToXMinOutputAmount", arg |-> dy, slippage |-> slippage,
                    quote |-> getYToXAmount(pool, dy),
                    ret |-> getYToXMinOutputAmount(pool, dy, slippage)]
        /\ UNCHANGED <<pool, position, cachePoolRefs>>

GetPrice ==
    \E xDecimal \in Decimals, yDecimal \in Decimals :
        /\ call' = [op |-> "getPrice", xDecimal |-> xDecimal, yDecimal |-> yDecimal,
                    ret |-> getPrice(pool, xDecimal, yDecimal)]
        /\ UNCHANGED <<pool, position, cachePoolRefs>>

IsAvaliableForSwap ==
    /\ call' = [op |-> "isAvaliableForSwap", ret |-> isAvaliableForSwap(pool),
                reason |-> getNotAvaliableForSwapReason(pool)]
    /\ UNCHANGED <<pool, position, cachePoolRefs>>

NextSnapshot ==
    \/ GetXToYAmount
    \/ GetYToXAmount
    \/ GetXToYMinOutputAmount
    \/ GetYToXMinOutputAmount
    \/ GetDepositAmount
    \/ GetPrice
    \/ IsAvaliableForSwap
    \/ Balance
    \/ GetShareCoinAmounts

SpecSnapshot == InitSnapshot /\ [][NextSnapshot]_vars

----------------------------------------------------------------------------
(* SpecCoins: which pairs of coins a pool snapshot swaps *)

CoinTypes == { CoinType("sui", "A"), CoinType("sui", "B"), CoinType("aptos", "A") }

CoinPools ==
    { WithType(MkPool(t, x, y, x + y, "X", 1, 1, 1, fr, NoFee), ty[1], ty[2]) :
        t \in {"v2", "stable"}, x \in {0, 1}, y \in {0, 1}, fr \in BOOLEAN,
        ty \in { <<CoinType("sui", "A"), CoinType("sui", "B")>>,
                 <<CoinType("aptos", "A"), CoinType("sui", "A")>> } }

InitCoins ==
    /\ cachePoolRefs = NullCache
    /\ pool \in CoinPools
    /\ position = NoPosition
    /\ call = NoCall

GetSwapDirection ==
    \E x \in CoinTypes, y \in CoinTypes :
        /\ call' = [op |-> "getSwapDirection", x |-> x, y |-> y,
                    direction |-> getSwapDirection(pool, x, y), ret |-> FALSE]
        /\ UNCHANGED <<pool, position, cachePoolRefs>>

IsCapableSwappingForCoins ==
    \E x \in CoinTypes, y \in CoinTypes :
        /\ call' = [op |-> "isCapableSwappingForCoins", x |-> x, y |-> y,
                    direction |-> getSwapDirection(pool, x, y),
                    ret |-> isCapableSwappingForCoins(pool, x, y)]
        /\ UNCHANGED <<pool, position, cachePoolRefs>>

NextCoins == GetSwapDirection \/ IsCapableSwappingForCoins

SpecCoins == InitCoins /\ [][NextCoins]_vars

----------------------------------------------------------------------------
(* SpecRetry: retry({times, ms, fn}), one step per await *)

\* what an attempt of fn settles with: it resolves, or rejects with an error
Errors == {"e1", "e2"}
Outcomes == {"ok"} \cup Errors

\* the head of the for loop: the next attempt, or the end of the loop, after
\* which the promise of retry resolves
retryLoop(c) ==
    IF c.i < c.times THEN [c EXCEPT !.pc = "fn"]
    ELSE [c EXCEPT !.pc = "done", !.result = "resolved"]

InitRetry ==
    /\ cachePoolRefs = NullCache
    /\ pool = SolverPool
    /\ position = NoPosition
    /\ call = NoCall

\* retry is called; log records the attempts of fn and the delays awaited
Retry ==
    /\ IF call.op = "none" THEN TRUE ELSE call.pc = "done"
    /\ \E times \in -1 .. MaxTimes, hasMs \in BOOLEAN :
            call' = retryLoop([op |-> "retry", times |-> times, hasMs |-> hasMs, i |-> 0,
                               pc |-> "loop", log |-> <<>>, result |-> "pending",
                               error |-> "none"])
    /\ UNCHANGED <<pool, position, cachePoolRefs>>

\* faulty variant: the delay and the next pass taken after the last attempt too
RetryFn_AlwaysContinues ==
    /\ call.op = "retry" /\ call.pc = "fn"
    /\ \E outcome \in Outcomes :
            LET c == [call EXCEPT !.log = Append(@, outcome)]
            IN  call' = IF outcome = "ok"
                        THEN [c EXCEPT !.pc = "done", !.result = "resolved"]
                        ELSE IF c.hasMs THEN [c EXCEPT !.pc = "delay"]
                        ELSE retryLoop([c EXCEPT !.i = @ + 1])
    /\ UNCHANGED <<pool, position, cachePoolRefs>>

\* await fn() settles: break on success; on failure the delay, the next pass or
\* the rethrow
RetryFn ==
    /\ call.op = "retry" /\ call.pc = "fn"
    /\ \E outcome \in Outcomes :
            LET c == [call EXCEPT !.log = Append(@, outcome)]
            IN  call' = IF outcome = "ok"
                        THEN [c EXCEPT !.pc = "done", !.result = "resolved"]
                        ELSE IF c.i + 1 < c.times
                        THEN (IF c.hasMs THEN [c EXCEPT !.pc = "delay"]
                              ELSE retryLoop([c EXCEPT !.i = @ + 1]))
                        ELSE [c EXCEPT !.pc = "done", !.result = "rejected",
                                       !.error = outcome]
    /\ UNCHANGED <<pool, position, cachePoolRefs>>

\* await delay(ms) settles, then continue
RetryDelay ==
    /\ call.op = "retry" /\ call.pc = "delay"
    /\ call' = retryLoop([call EXCEPT !.log = Append(@, "delay"), !.i = @ + 1])
    /\ UNCHANGED <<pool, position, cachePoolRefs>>

NextRetry == Retry \/ RetryFn \/ RetryDelay

SpecRetry == InitRetry /\ [][NextRetry]_vars

----------------------------------------------------------------------------
(* SpecSelect: the coins a swap pays with *)

CoinInfo(addr, bal) == [addr |-> addr, balance |-> bal]

\* the place of coin in the sorted array s: after every coin that does not
\* compare greater (Array.prototype.sort is stable)
RECURSIVE insertByBalance(_, _)
insertByBalance(s, coin) ==
    IF s = <<>> THEN <<coin>>
    ELSE IF s[Len(s)].balance <= coin.balance THEN Append(s, coin)
    ELSE Append(insertByBalance(SubSeq(s, 1, Len(s) - 1), coin), s[Len(s)])

\* cs1.sort((a, b) => (a.balance < b.balance) ? -1 : (a.balance > b.balance ? 1 : 0))
RECURSIVE sortByBalance(_)
sortByBalance(cs) ==
    IF cs = <<>> THEN <<>>
    ELSE insertByBalance(sortByBalance(SubSeq(cs, 1, Len(cs) - 1)), cs[Len(cs)])

\* faulty variant: the loop left only once the balance is above the target
RECURSIVE takeCoins_StrictBreak(_, _, _, _, _)
takeCoins_StrictBreak(cs1, k, cs2, bal, targetBalance) ==
    IF k > Len(cs1) \/ bal > targetBalance THEN <<cs2, bal>>
    ELSE takeCoins_StrictBreak(cs1, k + 1, Append(cs2, cs1[k]), bal + cs1[k].balance,
                               targetBalance)

\* the for loop over cs1 from its k-th coin
RECURSIVE takeCoins(_, _, _, _, _)
takeCoins(cs1, k, cs2, bal, targetBalance) ==
    IF k > Len(cs1) \/ bal >= targetBalance THEN <<cs2, bal>>
    ELSE takeCoins(cs1, k + 1, Append(cs2, cs1[k]), bal + cs1[k].balance, targetBalance)

\* the array passed in as the call leaves it, and [cs2, balance]
_getCoinsLargerThanBalance(cs, targetBalance) ==
    LET cs1 == sortByBalance(cs)
    IN  [cs |-> cs, ret |-> takeCoins(cs1, 1, <<>>, 0, targetBalance)]

CoinArrays ==
    UNION { { [i \in 1 .. n |-> CoinInfo(i, bs[i])] : bs \in [1 .. n -> 0 .. MaxCoinBalance] } :
            n \in 0 .. MaxCoins }

TargetBalances == -1 .. (MaxCoins * MaxCoinBalance + 1)

\* a call about to be made, with its arguments
InitSelect ==
    /\ cachePoolRefs = NullCache
    /\ pool = SolverPool
    /\ position = NoPosition
    /\ call \in { [op |-> "pending", cs |-> cs, targetBalance |-> t] :
                     cs \in CoinArrays, t \in TargetBalances }

GetCoinsLargerThanBalance ==
    /\ call.op = "pending"
    /\ LET r == _getCoinsLargerThanBalance(call.cs, call.targetBalance)
       IN  call' = [op |-> "_getCoinsLargerThanBalance", cs |-> call.cs,
                    targetBalance |-> call.targetBalance, after |-> r.cs, ret |-> r.ret]
    /\ UNCHANGED <<pool, position, cachePoolRefs>>

NextSelect == GetCoinsLargerThanBalance

SpecSelect == InitSelect /\ [][NextSelect]_vars

----------------------------------------------------------------------------
(* SpecCache: the pool references a SuiswapClient caches, one step per await *)

\* what provider.getObjectBatch resolves with, turned into pool references
Responses ==
    LET PoolRefs == { [poolId |-> id, poolType |-> ty] : id \in {"p1", "p2"}, ty \in {"t1", "t2"} }
    IN  UNION { [1 .. n -> PoolRefs] : n \in 0 .. MaxRefs }

\* uniqArrayOn(array, x => x.poolId): a Map keeps a key at the place it was first
\* set and with the value it was last set to
RECURSIVE uniqFrom(_, _)
uniqFrom(array, k) ==
    IF k > Len(array) THEN <<>>
    ELSE IF \E j \in 1 .. (k - 1) : array[j].poolId = array[k].poolId
    THEN uniqFrom(array, k + 1)
    ELSE LET last == CHOOSE j \in k .. Len(array) :
                        /\ array[j].poolId = array[k].poolId
                        /\ \A i \in (j + 1) .. Len(array) : array[i].poolId # array[k].poolId
         IN  <<array[last]>> \o uniqFrom(array, k + 1)

uniqArrayOn(array) == uniqFrom(array, 1)

\* the calls in flight on one client, one for each caller
Callers == {1, 2}

Idle ==
    [kind |-> "none", force |-> FALSE, pc |-> "idle", queried |-> FALSE,
     result |-> "none", read |-> "none"]

\* the body of refreshCachePoolRef up to its first await
enterRefresh(kind, force) ==
    IF force \/ cachePoolRefs.isNull
    THEN [kind |-> kind, force |-> force, pc |-> "getDynamicFields", queried |-> TRUE,
          result |-> "pending", read |-> "none"]
    ELSE [kind |-> kind, force |-> force, queried |-> FALSE, read |-> "none",
          pc |-> IF kind = "getCoinsAndPools" THEN "read" ELSE "done",
          result |-> IF kind = "getCoinsAndPools" THEN "pending" ELSE "resolved"]

InitCache ==
    /\ cachePoolRefs = NullCache
    /\ pool = SolverPool
    /\ position = NoPosition
    /\ call = [op |-> "client", inv |-> [c \in Callers |-> Idle]]

\* faulty variant: the cache emptied before the provider is asked
RefreshCachePoolRef_EmptiesFirst ==
    \E c \in Callers, force \in BOOLEAN :
        /\ call.inv[c].pc \in {"idle", "done"}
        /\ call' = [call EXCEPT !.inv[c] = enterRefresh("refreshCachePoolRef", force)]
        /\ cachePoolRefs' = IF force \/ cachePoolRefs.isNull THEN Cached(<<>>)
                            ELSE cachePoolRefs
        /\ UNCHANGED <<pool, position>>

RefreshCachePoolRef ==
    \E c \in Callers, force \in BOOLEAN :
        /\ call.inv[c].pc \in {"idle", "done"}
        /\ call' = [call EXCEPT !.inv[c] = enterRefresh("refreshCachePoolRef", force)]
        /\ UNCHANGED <<pool, position, cachePoolRefs>>

\* getCoinsAndPools up to the first await of refreshCachePoolRef(false)
GetCoinsAndPools ==
    \E c \in Callers :
        /\ call.inv[c].pc \in {"idle", "done"}
        /\ call' = [call EXCEPT !.inv[c] = enterRefresh("getCoinsAndPools", FALSE)]
        /\ UNCHANGED <<pool, position, cachePoolRefs>>

\* await this.provider.getDynamicFields(...) settles
GetDynamicFields ==
    \E c \in Callers :
        /\ call.inv[c].pc = "getDynamicFields"
        /\ \/ call' = [call EXCEPT !.inv[c].pc = "getObjectBatch"]
           \/ call' = [call EXCEPT !.inv[c].pc = "done", !.inv[c].result = "rejected"]
        /\ UNCHANGED <<pool, position, cachePoolRefs>>

\* await this.provider.getObjectBatch(...) settles; the fields are read and the
\* cache is assigned in the same turn
GetObjectBatch ==
    \E c \in Callers :
        /\ call.inv[c].pc = "getObjectBatch"
        /\ \/ /\ call' = [call EXCEPT !.inv[c].pc = "done", !.inv[c].result = "rejected"]
              /\ UNCHANGED cachePoolRefs
           \/ \E response \in Responses :
                /\ cachePoolRefs' = Cached(uniqArrayOn(response))
                /\ call' = IF call.inv[c].kind = "getCoinsAndPools"
                           THEN [call EXCEPT !.inv[c].pc = "read"]
                           ELSE [call EXCEPT !.inv[c].pc = "done", !.inv[c].result = "resolved"]
        /\ UNCHANGED <<pool, position>>

\* this.cachePoolRefs!.map(...) and the rest of getCoinsAndPools
ReadCache ==
    \E c \in Callers :
        /\ call.inv[c].pc = "read"
        /\ IF cachePoolRefs.isNull
           THEN call' = [call EXCEPT !.inv[c] =
                            [@ EXCEPT !.pc = "done", !.result = "rejected", !.read = "null"]]
           ELSE \E result \in {"resolved", "rejected"} :
                    call' = [call EXCEPT !.inv[c] =
                                [@ EXCEPT !.pc = "done", !.result = result, !.read = "refs"]]
        /\ UNCHANGED <<pool, position, cachePoolRefs>>

NextCache ==
    \/ RefreshCachePoolRef
    \/ GetCoinsAndPools
    \/ GetDynamicFields
    \/ GetObjectBatch
    \/ ReadCache

SpecCache == InitCache /\ [][NextCache]_vars

----------------------------------------------------------------------------
(* SpecDecimal: DemicalFormat values, their text and their alignment *)

Formats ==
    { DemicalFormat(m, d) : m \in (-MaxMantissa) .. MaxMantissa, d \in 0 .. MaxDemical }
    \cup { DemicalFormat(25, 2), DemicalFormat(250, 2), DemicalFormat(0, 2) }

Chars == {"0", "1", ".", "-", "e"}

Texts ==
    UNION { [1 .. n -> Chars] : n \in 0 .. MaxLen }
    \cup { <<"0", ".", "2", "5">>, <<"2", ".", "5", "0">>, <<"1", ".", "5", ".", "0">>,
           <<"+", "1">>, <<"0", "5", ".", "5">> }

Targets == -1 .. (MaxDemical + 1)

InitDecimal ==
    /\ cachePoolRefs = NullCache
    /\ pool = SolverPool
    /\ position = NoPosition
    /\ call = NoCall

FormatToString ==
    \E v \in Formats, fixed \in BOOLEAN :
        /\ call' = [op |-> "toString", v |-> v, fixed |-> fixed, ret |-> toString(v, fixed)]
        /\ UNCHANGED <<pool, position, cachePoolRefs>>

\* fromString on a text, or on the text the preceding toString returned
FormatFromString ==
    \/ \E s \in Texts :
            /\ call' = [op |-> "fromString", s |-> s, chained |-> FALSE,
                        v |-> DemicalFormat(0, 0), fixed |-> FALSE, ret |-> fromString(s)]
            /\ UNCHANGED <<pool, position, cachePoolRefs>>
    \/ /\ call.op = "toString"
       /\ call' = [op |-> "fromString", s |-> call.ret, chained |-> TRUE,
                   v |-> call.v, fixed |-> call.fixed, ret |-> fromString(call.ret)]
       /\ UNCHANGED <<pool, position, cachePoolRefs>>

CanAlignTo ==
    \E v \in Formats, r \in Targets :
        /\ call' = [op |-> "canAlignTo", v |-> v, r |-> r, ret |-> canAlignTo(v, r)]
        /\ UNCHANGED <<pool, position, cachePoolRefs>>

AlignTo ==
    \E v \in Formats, r \in Targets :
        /\ call' = [op |-> "alignTo", v |-> v, r |-> r, ret |-> alignTo(v, r)]
        /\ UNCHANGED <<pool, position, cachePoolRefs>>

NextDecimal == FormatToString \/ FormatFromString \/ CanAlignTo \/ AlignTo

SpecDecimal == InitDecimal /\ [][NextDecimal]_vars

----------------------------------------------------------------------------
(* SpecScaled: the wrappers of the solver that take decimal precisions *)

\* <<b, q, A, bd, qd>> with both balances positive
ScaledInputs ==
    {1, MaxReserve} \X {1, MaxReserve} \X (1 .. MaxAmp) \X Decimals \X Decimals

InitScaled ==
    /\ cachePoolRefs = NullCache
    /\ pool = SolverPool
    /\ position = NoPosition
    /\ call = NoCall

ComputeDDecimal ==
    \E in \in ScaledInputs :
        /\ call' = [op |-> "computeDDecimal", dx |-> 0, in |-> in,
                    ret |-> computeDDecimal(in[1], in[2], in[3], in[4], in[5])]
        /\ UNCHANGED <<pool, position, cachePoolRefs>>

ComputeYDecimal ==
    \E dx \in {0, 1, MaxAmount}, in \in ScaledInputs :
        /\ call' = [op |-> "computeYDecimal", dx |-> dx, in |-> in,
                    ret |-> computeYDecimal(dx, in[1], in[2], in[3], in[4], in[5])]
        /\ UNCHANGED <<pool, position, cachePoolRefs>>

NextScaled == ComputeDDecimal \/ ComputeYDecimal

SpecScaled == InitScaled /\ [][NextScaled]_vars

----------------------------------------------------------------------------
(* Claims *)

IsSwapCall == call.op \in {"getXToYAmount", "getYToXAmount"}

QuoteNeverNegative ==
    (IsSwapCall /\ call.arg >= 0 /\ pool.x > 0 /\ pool.y > 0)
    => (call.ret.ok /\ call.ret.v >= 0)

\* C3: on a frozen pool or a pool with a zero reserve, a swap quote of a
\* non-negative amount completes without throwing.
DegenerateNeverThrows ==
    (IsSwapCall /\ call.arg >= 0 /\ (pool.freeze \/ pool.x = 0 \/ pool.y = 0))
    => call.ret.ok

\* C4: for non-negative balances and A >= 1, computeD returns without failing,
\* its result is non-negative, and computeD(0, 0, A) = 0.
InvariantNeverFails ==
    (call.op = "computeD")
    => (call.ret.ok /\ call.ret.v >= 0 /\ (call.b = 0 /\ call.q = 0 => call.ret.v = 0))

\* C5: for b > 0 and A >= 1, computeD(b, b, A) = 2 * b, returned by the early
\* exit of the loop (in its first pass).
BalancedInvariant ==
    (call.op = "computeD" /\ call.b = call.q /\ call.b > 0)
    => (call.ret.ok /\ call.ret.v = 2 * call.b /\ call.ret.n = 1)

BalancedWitness ==
    /\ call.op = "computeD" /\ call.b = 1000 /\ call.q = 1000 /\ call.A = 100
    /\ call.ret = Done(2000, 1)

\* C6: on a constant-product pool without fees and with reserveX > 0, the forward
\* quote of amountIn >= 0 is floor(reserveY * amountIn / (reserveX + amountIn)).
ConstantProductQuote ==
    (call.op = "getXToYAmount" /\ pool.swapType = "v2" /\ call.arg >= 0 /\ pool.x > 0
        /\ totalAdminFee(pool) = 0 /\ totalLpFee(pool) = 0)
    => (call.ret.ok /\ call.ret.v = (pool.y * call.arg) \div (pool.x + call.arg))

ConstantProductWitness ==
    /\ call.op = "getXToYAmount" /\ pool = ScenarioPoolV2
    /\ call.arg = 1000 /\ call.ret = Ok(1998)

\* the input of a swap quote after the admin fee of the input leg, if any
AfterInputAdminFee ==
    IF (call.op = "getXToYAmount" /\ pool.feeDirection = "X")
         \/ (call.op = "getYToXAmount" /\ pool.feeDirection = "Y")
    THEN call.arg - ((call.arg * (pool.adminFee + pool.connectFee)) \div 10000)
    ELSE call.arg

\* C7: in every swap quote of a non-negative amount the curve receives
\* in' - floor(in' * (incentiveFee + lpFee) / 10000), in' the input after the admin
\* fee of the input leg; without an admin fee the constant-product quote is the
\* curve formula on that amount.
LpFeeOnInput ==
    (IsSwapCall /\ call.arg >= 0)
    => /\ call.curveIn = AfterInputAdminFee
                           - ((AfterInputAdminFee * (pool.incentiveFee + pool.lpFee)) \div 10000)
       /\ (pool.swapType = "v2" /\ pool.adminFee + pool.connectFee = 0
              /\ call.op = "getXToYAmount" /\ pool.x > 0)
          => (call.ret.ok
              /\ call.ret.v = (pool.y * call.curveIn) \div (pool.x + call.curveIn))

LpFeeWitness ==
    /\ call.op = "getXToYAmount" /\ pool = ScenarioPoolFee
    /\ call.arg = 10000 /\ call.curveIn = 9970 /\ call.ret = Ok(9066)

\* C8: on a pool with lspSupply = 0, whatever its reserves, the deposit quote is
\* (0, 0); it is (0, 0) too whenever a cap is not positive.
DepositOnZeroSupply ==
    (call.op = "getDepositAmount"
        /\ (pool.lspSupply = 0 \/ call.xMax <= 0 \/ call.yMax <= 0))
    => call.ret = <<0, 0>>

\* C9: on a pool with both reserves positive and positive caps, the deposit quote
\* (x, y) is within the caps, binds on one of them with the other side the
\* truncated proportional amount, and no pair within the caps that is exactly in
\* the reserve ratio exceeds it on either side.
DepositBindsOnCap ==
    (call.op = "getDepositAmount" /\ pool.x > 0 /\ pool.y > 0
        /\ call.xMax > 0 /\ call.yMax > 0)
    => LET x == call.ret[1]
           y == call.ret[2]
       IN  /\ 0 <= x /\ x <= call.xMax
           /\ 0 <= y /\ y <= call.yMax
           /\ \/ (x = call.xMax /\ y = (pool.y * call.xMax) \div pool.x)
              \/ (y = call.yMax /\ x = (pool.x * call.yMax) \div pool.y)
           /\ \A x2 \in 0 .. call.xMax, y2 \in 0 .. call.yMax :
                (x2 * pool.y = y2 * pool.x) => (x2 <= x /\ y2 <= y)

DepositWitness ==
    /\ call.op = "getDepositAmount" /\ pool.x = 3 /\ pool.y = 2
    /\ call.xMax = 2 /\ call.yMax = 4 /\ call.ret = <<2, 1>>

RECURSIVE Pow10(_)
Pow10(n) == IF n = 0 THEN 1 ELSE 10 * Pow10(n - 1)

\* C10: without a ratio the position's balance is the share balance; with a ratio
\* (mantissa, scale) it is floor(balance * mantissa / 10^scale) clamped into
\* [0, balance].
PositionBalanceClamped ==
    (call.op = "balance")
    => /\ 0 <= call.ret /\ call.ret <= position.balance
       /\ ~position.hasRatio => call.ret = position.balance
       /\ position.hasRatio =>
            LET fl == (position.balance * position.ratio.value)
                          \div Pow10(position.ratio.demical)
            IN  call.ret = IF fl < 0 THEN 0
                           ELSE IF fl > position.balance THEN position.balance
                           ELSE fl

PositionBalanceWitness ==
    /\ call.op = "balance" /\ position = ScenarioPosition /\ call.ret = 250

\* C12: partial(ratio) returns a position with the pool and share coin of the one
\* it was called on, carrying exactly the given ratio (also when that one already
\* carried a ratio), and the position it was called on keeps its fields.
PartialReplacesRatio ==
    [][/\ position' = position
       /\ call'.op = "partial" =>
            /\ call'.ret.poolInfo = call'.src.poolInfo
            /\ call'.ret.balance = call'.src.balance
            /\ call'.ret.hasRatio
            /\ call'.ret.ratio = call'.ratio]_vars

PartialWitness ==
    /\ call.op = "partial" /\ call.src.hasRatio /\ call.src # position
    /\ call.src.ratio = DemicalFormat(5, 1) /\ call.ratio = DemicalFormat(5, 1)
    /\ call.ret.ratio = DemicalFormat(5, 1) /\ position.balance > 0

\* C13: with balance the position's balance(), getShareCoinAmounts is
\* (floor(balance * x / lspSupply), floor(balance * y / lspSupply)) for a positive
\* lspSupply and (0, 0) for lspSupply = 0; with balance <= lspSupply each amount is
\* at most the reserve.
ShareCoinAmountsProportional ==
    (call.op = "getShareCoinAmounts")
    => LET bal == balance(position)
       IN  /\ pool.lspSupply = 0 => call.ret = <<0, 0>>
           /\ pool.lspSupply > 0 =>
                 call.ret = <<(bal * pool.x) \div pool.lspSupply,
                              (bal * pool.y) \div pool.lspSupply>>
           /\ bal <= pool.lspSupply => (call.ret[1] <= pool.x /\ call.ret[2] <= pool.y)

ShareCoinAmountsWitness ==
    /\ call.op = "getShareCoinAmounts" /\ position.hasRatio
    /\ position.balance = 4 /\ position.ratio = DemicalFormat(5, 1)
    /\ pool.x = 3 /\ pool.y = 4 /\ pool.lspSupply = 3
    /\ call.ret = <<2, 2>>

\* the arguments of the call recorded in c
ArgsOf(c) ==
    IF c.op \in {"getXToYAmount", "getYToXAmount"} THEN <<c.arg>>
    ELSE IF c.op \in {"getXToYMinOutputAmount", "getYToXMinOutputAmount"}
         THEN <<c.arg, c.slippage>>
    ELSE IF c.op = "getDepositAmount" THEN <<c.xMax, c.yMax>>
    ELSE IF c.op = "getPrice" THEN <<c.xDecimal, c.yDecimal>>
    ELSE <<>>

\* C11: no accounting call changes a field of the pool or of the position, and a
\* call repeated with the same arguments returns the same result.
SnapshotNeverMutated ==
    [][/\ pool' = pool
       /\ position' = position
       /\ (call.op # "none" /\ call'.op = call.op /\ ArgsOf(call') = ArgsOf(call))
            => call'.ret = call.ret]_vars

SnapshotWitness ==
    /\ call.op = "getXToYAmount" /\ call.arg = MaxAmount
    /\ pool.swapType = "stable" /\ pool.x = MaxReserve /\ pool.y = MaxReserve
    /\ call.ret.ok /\ call.ret.v > 0 /\ position.hasRatio

IsMinOutputCall == call.op \in {"getXToYMinOutputAmount", "getYToXMinOutputAmount"}

\* the integer nearest to (1 - s) * 10^9
NearestFactor(s) ==
    CHOOSE f \in {_1E9 - s.nano - 1, _1E9 - s.nano} :
        2 * Abs(10 * (_1E9 - s.nano - f) - s.tenth) < 10

\* the largest integer not above (1 - s) * 10^9
FloorFactor(s) ==
    CHOOSE f \in {_1E9 - s.nano - 1, _1E9 - s.nano} :
        /\ 10 * (_1E9 - s.nano - f) >= s.tenth
        /\ 10 * (_1E9 - s.nano - f - 1) < s.tenth

\* C18 (as stated): the minimum output of a quote that is not negative is the
\* quote times the factor floor((1 - slippage) * 10^9), divided by 10^9.
SlippageFlooredFactor ==
    (IsMinOutputCall /\ call.quote.ok /\ call.quote.v >= 0)
        => /\ call.ret.ok
           /\ call.ret.v = mulDiv1E9(call.quote.v, FloorFactor(call.slippage))

\* C18 (amended): the minimum output is the quote times the factor
\* round((1 - slippage) * 10^9), divided by 10^9 and truncated toward zero; it
\* fails exactly when the quote fails, is never larger in magnitude than the
\* quote and is 0 when the quote is 0.
SlippageRoundedFactor ==
    IsMinOutputCall
        => /\ call.ret.ok = call.quote.ok
           /\ call.quote.ok
                => /\ call.ret.v = mulDiv1E9(call.quote.v, NearestFactor(call.slippage))
                   /\ Abs(call.ret.v) <= Abs(call.quote.v)
                   /\ (call.quote.v = 0 => call.ret.v = 0)
                   /\ (call.slippage = Slippage(0, 0) => call.ret.v = call.quote.v)
                   /\ (call.slippage = Slippage(_1E9, 0) => call.ret.v = 0)

SlippageWitness ==
    /\ call.op = "getXToYMinOutputAmount"
    /\ call.slippage = Slippage(0, 3)
    /\ call.quote.ok /\ call.quote.v > 0
    /\ call.ret = call.quote

\* C19: the reason is "freezed" exactly for a frozen pool, whatever its reserves,
\* "empty" exactly for a pool that is not frozen and has a reserve of 0, and
\* null otherwise; the boolean is true exactly when the reason is null.
AvailabilityClassification ==
    call.op = "isAvaliableForSwap"
        => /\ call.reason \in {Freeze, Empty, Null}
           /\ call.reason = Freeze <=> pool.freeze
           /\ call.reason = Empty <=> (~pool.freeze /\ (pool.x = 0 \/ pool.y = 0))
           /\ call.reason = Null <=> (~pool.freeze /\ pool.x # 0 /\ pool.y # 0)
           /\ call.ret <=> call.reason = Null

AvailabilityWitness ==
    /\ call.op = "isAvaliableForSwap"
    /\ pool.freeze /\ pool.x = 0
    /\ call.reason = Freeze /\ ~call.ret

\* C14: the text of a value written with fixed = true parses back to the same
\* value and the same demical.
ParseFormatRoundTrip ==
    (call.op = "fromString" /\ call.chained /\ call.fixed)
        => /\ ~call.ret.isNull
           /\ call.ret.value = call.v.value
           /\ call.ret.demical = call.v.demical

CountOf(s, c) == Cardinality({ i \in 1 .. Len(s) : s[i] = c })

DigitsAfterPoint(s) ==
    IF CountOf(s, ".") = 0 THEN 0
    ELSE Cardinality({ i \in 1 .. Len(s) : \E j \in 1 .. (i - 1) : s[j] = "." })

\* the zeros that end the digits after the point
ZerosAtEnd(s) ==
    IF CountOf(s, ".") = 0 THEN 0
    ELSE Cardinality({ i \in 1 .. Len(s) : \A j \in i .. Len(s) : s[j] = "0" })

\* digits, then possibly a point and digits
WellFormedText(s) ==
    /\ Len(s) >= 1
    /\ IsDigit(s[1])
    /\ CountOf(s, ".") <= 1
    /\ \A i \in 1 .. Len(s) : IsDigit(s[i]) \/ s[i] = "."

RedundantLeadingZero(s) == Len(s) >= 2 /\ s[1] = "0" /\ IsDigit(s[2])

AlignToPreservesValue ==
    (call.op = "alignTo" /\ call.r >= call.v.demical)
        => /\ call.ret.ok
           /\ call.ret.v.demical = call.r
           /\ call.ret.v.value = call.v.value * Pow10(call.r - call.v.demical)
           /\ call.ret.v.value * Pow10(call.v.demical) = call.v.value * Pow10(call.ret.v.demical)
           /\ call.r = call.v.demical => call.ret.v = call.v

AlignToWitness ==
    /\ call.op = "alignTo"
    /\ call.v = DemicalFormat(5, 1) /\ call.r = 2
    /\ call.ret = Ok(DemicalFormat(50, 2))

\* C17: canAlignTo is true exactly when the value's demical is not above the
\* target, and alignTo to a smaller demical throws instead of returning a value.
NarrowingRefused ==
    /\ call.op = "canAlignTo" => (call.ret <=> call.v.demical <= call.r)
    /\ (call.op = "alignTo" /\ call.r < call.v.demical) => ~call.ret.ok

NarrowingWitness ==
    /\ call.op = "alignTo"
    /\ call.v = DemicalFormat(25, 2) /\ call.r = 1
    /\ call.ret = Thrown

\* the scale the wrappers bring precision d up to the larger of bd and qd by
ScaleUp(d, bd, qd) == Pow10((IF bd > qd THEN bd ELSE qd) - d)

\* C20: each wrapper, when the solver it calls returns, returns a value: for
\* computeYDecimal the solver's result on the scaled amounts divided by the scale
\* of the output side, for computeDDecimal the invariant of the scaled balances.
ScaledWrappersReturn ==
    LET in == call.in
    IN  /\ call.op = "computeDDecimal"
            => LET d == computeD(in[1] * ScaleUp(in[4], in[4], in[5]),
                                 in[2] * ScaleUp(in[5], in[4], in[5]), in[3])
               IN  d.ok => (call.ret.ok /\ ~call.ret.undefined)
        /\ call.op = "computeYDecimal"
            => LET xs == ScaleUp(in[4], in[4], in[5])
                   ys == ScaleUp(in[5], in[4], in[5])
                   dy == computeY(call.dx * xs, in[1] * xs, in[2] * ys, in[3])
               IN  dy.ok => (/\ call.ret.ok /\ ~call.ret.undefined
                             /\ call.ret.v = BigIntDiv(dy.v, ys))

\* the pool with the two sides exchanged
Mirror(p) ==
    [p EXCEPT !.x = p.y, !.y = p.x,
              !.stableXScale = p.stableYScale, !.stableYScale = p.stableXScale,
              !.feeDirection = IF p.feeDirection = "X" THEN "Y" ELSE "X"]

\* C21: the reverse quote of a pool is the forward quote of the pool with the
\* reserves exchanged, the scales exchanged and the fee direction flipped, a
\* failure of the one being a failure of the other.
ReverseIsMirroredForward ==
    call.op = "getYToXAmount" => call.ret = getXToYAmount(Mirror(pool), call.arg)

ReverseMirrorWitness ==
    /\ call.op = "getYToXAmount"
    /\ pool.swapType = "stable" /\ pool.x # pool.y /\ pool.stableXScale # pool.stableYScale
    /\ totalAdminFee(pool) > 0
    /\ call.ret.ok /\ call.ret.v > 0
    /\ call.ret # getXToYAmount(pool, call.arg)

\* floor(amount * totalAdminFee / 10000)
AdminFeeOf(p, amount) == (amount * (p.adminFee + p.connectFee)) \div BPS_SCALING

\* amount - floor(amount * totalLpFee / 10000)
AfterLpFee(p, amount) == amount - ((amount * totalLpFee(p)) \div BPS_SCALING)

\* what the curve gives for the input in: forward from x to y, reverse from y to x
CurveOutput(p, in, forward) ==
    IF p.swapType = "v2"
    THEN (IF forward THEN _computeAmount(in, p.x, p.y) ELSE _computeAmount(in, p.y, p.x))
    ELSE (IF forward
          THEN _computeAmountStable(p, in, p.x, p.y, p.stableXScale, p.stableYScale)
          ELSE _computeAmountStable(p, in, p.y, p.x, p.stableYScale, p.stableXScale))

\* C24: in a swap quote of a non-negative amount that returns, the admin fee
\* floor(amount * (adminFee + connectFee) / 10000) is taken once: from the input,
\* before the LP fee, when the fee direction names the input side, and from the
\* output of the curve when it names the output side.
AdminFeeOnce ==
    (IsSwapCall /\ call.arg >= 0 /\ call.ret.ok)
        => LET forward == call.op = "getXToYAmount"
               onInput == pool.feeDirection = (IF forward THEN "X" ELSE "Y")
               in == IF onInput THEN AfterLpFee(pool, call.arg - AdminFeeOf(pool, call.arg))
                     ELSE AfterLpFee(pool, call.arg)
               out == CurveOutput(pool, in, forward)
           IN  /\ call.curveIn = in
               /\ out.ok
               /\ call.ret.v = IF onInput THEN out.v ELSE out.v - AdminFeeOf(pool, out.v)

\* C25: on a pool with both reserves positive, a swap quote of a non-negative
\* amount returns less than the reserve of the output side.
QuoteBelowReserve ==
    (IsSwapCall /\ call.arg >= 0 /\ pool.x > 0 /\ pool.y > 0)
        => /\ call.ret.ok
           /\ call.ret.v < (IF call.op = "getXToYAmount" THEN pool.y ELSE pool.x)

QuoteBelowReserveWitness ==
    /\ call.op = "getXToYAmount" /\ call.arg = MaxAmount
    /\ pool.swapType = "v2" /\ pool.x = 1 /\ pool.y = MaxReserve
    /\ call.ret = Ok(pool.y - 1)

\* C26: on a pool with both reserves positive, of two quotes in the same direction
\* the one of the larger non-negative amount is not the smaller.
QuoteMonotone ==
    [][(/\ call.op \in {"getXToYAmount", "getYToXAmount"}
        /\ call'.op = call.op
        /\ pool.x > 0 /\ pool.y > 0
        /\ 0 <= call.arg /\ call.arg <= call'.arg)
            => (call.ret.ok /\ call'.ret.ok /\ call.ret.v <= call'.ret.v)]_vars

QuoteMonotoneWitness ==
    /\ call.op = "getYToXAmount" /\ ~call.chained /\ call.arg = MaxAmount
    /\ pool.swapType = "stable" /\ pool.x > 0 /\ pool.y > 0
    /\ call.ret.ok /\ getYToXAmount(pool, call.arg - 1).ok
    /\ call.ret.v > getYToXAmount(pool, call.arg - 1).v

\* floor(a / b), failing when b is 0
FloorDiv(a, b) ==
    IF b = 0 THEN Thrown
    ELSE IF b > 0 THEN Ok(a \div b)
    ELSE Ok((-a) \div (-b))

\* one step of the iteration for the invariant, from D
RefInvariantStep(D, b, q, A) ==
    LET p1 == FloorDiv(D * D, 2 * b)
        p2 == IF p1.ok THEN FloorDiv(p1.v * D, 2 * q) ELSE Thrown
    IN  IF ~p2.ok THEN Thrown
        ELSE FloorDiv(D * (2 * p2.v + 2 * A * (b + q)), D * (2 * A - 1) + 3 * p2.v)

\* the iteration from D with k steps taken: the value it stops at and the number
\* of steps, or its failure
RECURSIVE RefInvariant(_, _, _, _, _)
RefInvariant(D, b, q, A, k) ==
    IF k = 256 THEN [ok |-> TRUE, v |-> D, n |-> k]
    ELSE LET next == RefInvariantStep(D, b, q, A)
         IN  IF ~next.ok THEN [ok |-> FALSE, v |-> 0, n |-> k + 1]
             ELSE IF Abs(next.v - D) <= 1 THEN [ok |-> TRUE, v |-> next.v, n |-> k + 1]
             ELSE RefInvariant(next.v, b, q, A, k + 1)

\* C22: for balances that are not both 0, computeD is the iteration from
\* D = b + q with dProd = ((D*D) div (2b)) * D div (2q) and
\* D_next = D*(2*dProd + 2A(b+q)) div (D*(2A-1) + 3*dProd): it takes at most 256
\* steps, stops at the first step with |D_next - D| <= 1 and returns that D_next;
\* it fails where the iteration divides by 0.
InvariantIsReference ==
    (call.op = "computeD" /\ call.b + call.q > 0)
        => /\ call.ret = RefInvariant(call.b + call.q, call.b, call.q, call.A, 0)
           /\ call.ret.n <= 256

InvariantReferenceWitness ==
    /\ call.op = "computeD" /\ call.b > 0 /\ call.q > 0
    /\ call.ret.ok /\ call.ret.n >= 2
    /\ \E D \in 0 .. (2 * MaxBalance) :
            /\ Abs(call.ret.v - D) = 1
            /\ RefInvariantStep(D, call.b, call.q, call.A) = Ok(call.ret.v)

\* the iteration for the new reserve, from y with k steps taken
RECURSIVE RefReserve(_, _, _, _, _)
RefReserve(y, b, c, D, k) ==
    IF k = 256 THEN Ok(y)
    ELSE LET next == FloorDiv(y * y + c, 2 * y + b - D)
         IN  IF ~next.ok THEN Thrown
             ELSE IF Abs(next.v - y) <= 1 THEN next
             ELSE RefReserve(next.v, b, c, D, k + 1)

\* C23: with D = computeD(x, y, A), c = ((D*D) div (2(x+dx))) * D div (4A) and
\* b = D div (2A) + x + dx, computeY iterates yy := (yy*yy + c) div (2yy + b - D)
\* from yy = D for at most 256 steps, stops at the first step with a change of
\* at most 1 and returns y - yy - 1; it fails where computeD or a division fails.
ReserveIsReference ==
    call.op = "computeY"
        => LET D == call.d
               c1 == IF D.ok THEN FloorDiv(D.v * D.v, 2 * (call.x + call.dx)) ELSE Thrown
               c == IF c1.ok THEN FloorDiv(c1.v * D.v, 4 * call.A) ELSE Thrown
               b == (D.v \div (2 * call.A)) + call.x + call.dx
               yy == IF c.ok THEN RefReserve(D.v, b, c.v, D.v, 0) ELSE Thrown
           IN  /\ call.ret.ok = yy.ok
               /\ call.ret.ok => call.ret.v = call.y - yy.v - 1

ReserveReferenceWitness ==
    /\ call.op = "computeY"
    /\ call.dx = 300 /\ call.x = 100 /\ call.y = 900 /\ call.A = 2
    /\ call.ret.ok /\ call.ret.v > 0 /\ call.ret.v < call.y

\* C27: isCapableSwappingForCoins is true only on a pool with both reserves
\* positive that is not frozen and for the pool's two coins, in either order; it
\* answers the same for the two coins exchanged, and when it is true
\* getSwapDirection is not null.
CapableOnlyWhenAvailable ==
    call.op = "isCapableSwappingForCoins"
        => /\ call.ret => (/\ pool.x > 0 /\ pool.y > 0 /\ ~pool.freeze
                            /\ {call.x, call.y} = {pool.xTokenType, pool.yTokenType})
           /\ call.ret = isCapableSwappingForCoins(pool, call.y, call.x)
           /\ call.ret => call.direction # Null

\* the attempts of fn in a log, in order
Attempts(log) == SelectSeq(log, LAMBDA e : e # "delay")

\* C28: retry calls fn at most times times and not again after an attempt that
\* succeeds; it resolves exactly when an attempt succeeded or times <= 0 (fn then
\* never called), and rejects, with the error of the last attempt, exactly when
\* times attempts all failed; a delay is awaited only after a failed attempt
\* that another attempt follows.
RetryContract ==
    call.op = "retry"
        => LET log == call.log
               att == Attempts(log)
               done == call.pc = "done"
           IN  /\ Len(att) <= (IF call.times > 0 THEN call.times ELSE 0)
               /\ \A k \in 1 .. Len(log) : log[k] = "ok" => k = Len(log)
               /\ call.times <= 0 => (log = <<>> /\ done /\ call.result = "resolved")
               /\ done <=> call.result # "pending"
               /\ call.result = "resolved"
                    <=> (done /\ (call.times <= 0 \/ (log # <<>> /\ log[Len(log)] = "ok")))
               /\ call.result = "rejected"
                    <=> (/\ done /\ call.times > 0 /\ Len(att) = call.times
                         /\ \A k \in 1 .. Len(att) : att[k] \in Errors)
               /\ call.result = "rejected" => call.error = att[Len(att)]
               /\ \A k \in 1 .. Len(log) :
                    log[k] = "delay"
                        => /\ call.hasMs
                           /\ k > 1 /\ log[k - 1] \in Errors
                           /\ done => (k < Len(log) /\ log[k + 1] # "delay")
               /\ (~call.hasMs) => log = att

RetryWitness ==
    /\ call.op = "retry" /\ call.times = MaxTimes /\ call.hasMs /\ call.pc = "done"
    /\ call.result = "rejected"
    /\ Len(Attempts(call.log)) = MaxTimes
    /\ Len(call.log) = 2 * MaxTimes - 1

RECURSIVE SumBalances(_)
SumBalances(cs) == IF cs = <<>> THEN 0 ELSE cs[1].balance + SumBalances(Tail(cs))

CoinsOf(cs) == { cs[i] : i \in 1 .. Len(cs) }

\* C29: the coins selected are distinct coins of the input in ascending order of
\* balance, none larger than a coin left out; the total returned is their sum;
\* it reaches the target exactly when the sum of all the coins does, and all
\* the coins are selected otherwise; without the last selected coin the total is
\* below the target; the input array is as it was; for a target <= 0 nothing is
\* selected.
CoinsSelected ==
    call.op = "_getCoinsLargerThanBalance"
        => LET sel == call.ret[1]
               total == call.ret[2]
               target == call.targetBalance
           IN  /\ CoinsOf(sel) \subseteq CoinsOf(call.cs)
               /\ Cardinality(CoinsOf(sel)) = Len(sel)
               /\ \A i \in 1 .. Len(sel), j \in 1 .. Len(sel) :
                    i < j => sel[i].balance <= sel[j].balance
               /\ \A c \in CoinsOf(call.cs) \ CoinsOf(sel), d \in CoinsOf(sel) :
                    d.balance <= c.balance
               /\ total = SumBalances(sel)
               /\ total >= target <=> SumBalances(call.cs) >= target
               /\ total < target => CoinsOf(sel) = CoinsOf(call.cs)
               /\ sel # <<>> => total - sel[Len(sel)].balance < target
               /\ call.after = call.cs
               /\ target <= 0 => (sel = <<>> /\ total = 0)

CoinsSelectedWitness ==
    /\ call.op = "_getCoinsLargerThanBalance"
    /\ Len(call.cs) = MaxCoins /\ call.cs[1].balance > call.cs[MaxCoins].balance
    /\ Len(call.ret[1]) = 2
    /\ call.ret[2] = call.targetBalance
    /\ call.ret[1][1] = call.cs[MaxCoins]

UniquePoolIds(refs) ==
    \A i \in 1 .. Len(refs), j \in 1 .. Len(refs) : i # j => refs[i].poolId # refs[j].poolId

\* what one step does to the call of caller c and to the cache
CacheStepOf(c) ==
    LET inv == call.inv[c]
        inv2 == call'.inv[c]
        entered == inv.pc \in {"idle", "done"}
        succeeded == inv.pc = "getObjectBatch" /\ inv2.result # "rejected"
        failed == inv.result = "pending" /\ inv2.result = "rejected" /\ inv.pc # "read"
    IN  inv2 # inv =>
          /\ entered =>
               /\ inv2.queried <=> (inv2.force \/ cachePoolRefs.isNull)
               /\ cachePoolRefs' = cachePoolRefs
               /\ (inv2.kind = "refreshCachePoolRef" /\ ~inv2.queried)
                    => inv2.result = "resolved" /\ ~cachePoolRefs'.isNull
          /\ succeeded =>
               /\ inv.queried
               /\ ~cachePoolRefs'.isNull
               /\ UniquePoolIds(cachePoolRefs'.refs)
          /\ failed => cachePoolRefs' = cachePoolRefs
          /\ ~entered /\ ~succeeded => cachePoolRefs' = cachePoolRefs
          /\ inv.pc = "read" => inv2.read = "refs" /\ ~cachePoolRefs.isNull

CacheStep ==
    call.op = "client" =>
        /\ \A c \in Callers : CacheStepOf(c)
        /\ cachePoolRefs' # cachePoolRefs =>
             \E c \in Callers : call.inv[c].pc = "getObjectBatch" /\ call'.inv[c] # call.inv[c]
        /\ ~cachePoolRefs'.isNull => UniquePoolIds(cachePoolRefs'.refs)

CacheStartsNull ==
    (call.op = "client" /\ \A c \in Callers : call.inv[c] = Idle) => cachePoolRefs.isNull

\* C30: the cache of pool references is null before the first call.
\* refreshCachePoolRef(force) asks the provider exactly when force is set or the
\* cache is null: with a populated cache and no force it resolves at once and the
\* cache is as it was. A refresh that succeeds leaves a non-null cache with one
\* entry for each poolId; one that fails leaves the cache as it was; nothing else
\* assigns the cache. What getCoinsAndPools reads is never null.
CacheContract == CacheStartsNull /\ [][CacheStep]_vars

CacheWitness ==
    /\ call.op = "client"
    /\ call.inv[1].kind = "refreshCachePoolRef" /\ call.inv[1].force
    /\ call.inv[1].result = "resolved"
    /\ call.inv[2].kind = "getCoinsAndPools" /\ ~call.inv[2].queried
    /\ call.inv[2].read = "refs"
    /\ Len(cachePoolRefs.refs) = 1

====
